---- MODULE Spec2Model ----
(***************************************************************************)
(* A model of the three WebGPU game-of-life programs of the repository:    *)
(*   "part_001"  src/unnamed/part_001  two buffers, time-based cadence     *)
(*   "part_000"  src/unnamed/part_000  two buffers, pointer paint, burst   *)
(*               throttle inside the kernel                                *)
(*   "script"    src/src/script.ts     one packed buffer (current half,    *)
(*               next half), pointer paint, frame-count cadence            *)
(* Numbers: times are whole milliseconds; a pointer coordinate is kept as  *)
(* the numerator of a fraction over the canvas size (the values the        *)
(* handlers compute are exact in f32 at every cell boundary).  A u32 is    *)
(* kept as an integer of -1 .. 2^31-1, -1 standing for 2^32 - 1, and only  *)
(* its residue is ever taken (U32Rem).                                     *)
(***************************************************************************)
EXTENDS Integers, Sequences, FiniteSets, TLC

(* ------------------------------ bounds -------------------------------- *)
\* The grid is 2^GridExp cells wide and high (64 = 2^6 and 128 = 2^7 in the
\* sources) and a workgroup 2^WorkgroupExp invocations (8 = 2^3).
GridExp == 2
WorkgroupExp == 1
\* Canvas pixels per grid cell (640 / 64 = 10 and 640 / 128 = 5 in the sources).
PixelsPerCell == 2
\* Grid dimensions the addressing specification probes: 8, 16, ..., 8 * MaxGridBlocks.
MaxGridBlocks == 16
\* How many cells of SeedOrder a start pattern may hold alive.
SeedCount == 5
\* Frames each frame loop is followed for.
MaxFrames_001 == 11
MaxFrames_000 == 4
MaxFrames_script == 9
\* Pointer events each frame loop takes.
MaxPointerEvents == 2
\* Frames the pointer is followed through, with events at every point of them.
MaxPointerFrames == 2
\* Times the fragment stage is looked at: MaxShadeSteps steps of ShadeStep ms.
MaxShadeSteps == 80
ShadeStep == 125

(* ----------------------------- constants ------------------------------ *)
GRID_SIZE == 2 ^ GridExp
WORKGROUP_SIZE == 2 ^ WorkgroupExp
CanvasSize == GRID_SIZE * PixelsPerCell
CellCount == GRID_SIZE * GRID_SIZE
Slots == 0 .. CellCount - 1
Bit == {0, 1}
Variants == {"part_001", "part_000", "script"}

VARIABLES
  variant,             \* which of the three programs runs
  gridSize,            \* uniform "Grid Size": [x, y]
  gridStateBuffers,    \* the storage buffers: two of CellCount slots, or (script)
                       \* one of 2 * CellCount slots, current half then next half
  mouseData,           \* uniform "Mouse": [x, y, z], x and y over CanvasSize
  timeData,            \* uniform "Time" (part_000)
  renderInfoData,      \* uniform "Render Info" (script): [frame, time, lastRenderTime]
  bound,               \* the bind group index set on the compute pass in flight
  pc,                  \* per workgroup of the dispatch in flight: "rule", "copy", "done"
  reads,               \* storage slots <<buffer, index>> the dispatch has read for
                       \* a cell's state or neighbour count
  writes,              \* storage slots the dispatch has written
  dirty,               \* neighbour reads that found a slot written earlier in the dispatch
  memBefore,           \* the storage buffers when the dispatch began
  mouse,               \* the pointer object the event handlers write: [x, y, pressed]
  time,                \* the timestamp of the latest frame callback
  step,                \* part_001, part_000: the step counter
  lastUpdateTime,      \* part_001
  lastSimulationTime,  \* part_000
  lastRenderTime,      \* part_000, script
  frame,               \* frames run so far (script: its variable frame)
  scheduled,           \* callbacks registered with requestAnimationFrame, not yet run
  batch,               \* the passes of the command buffer submitted last
  renderPending,       \* script: the submitted render pass has not run yet
  rendered,            \* the generation the latest render pass drew
  events,              \* pointer events the handlers have taken
  boot,                \* startup: [phase, env, message, alerted]
  probe                \* one invocation looked at alone: its neighbour lookups, or
                       \* (vertex stage) the vertices of its instance

\* what the frame callbacks and the event handlers own
hostVars ==
  <<mouse, time, step, lastUpdateTime, lastSimulationTime, lastRenderTime, frame,
    scheduled, batch, renderPending, rendered, events>>

\* what a dispatch in flight owns
gpuVars ==
  <<gridStateBuffers, mouseData, timeData, renderInfoData, bound, pc, reads, writes,
    dirty, memBefore>>

vars == <<variant, gridSize, gpuVars, hostVars, probe, boot>>

(* ----------------------------- addressing ----------------------------- *)
RECURSIVE Pow2Rem(_, _)
\* 2^e modulo m, without leaving 32-bit integers
Pow2Rem(e, m) == IF e = 0 THEN 1 % m ELSE (2 * Pow2Rem(e - 1, m)) % m

\* The WGSL expression (v % m) for a u32 v; v = -1 is what cell.x - 1
\* evaluates to at cell.x = 0, namely 2^32 - 1.
U32Rem(v, m) == IF v >= 0 THEN v % m ELSE (Pow2Rem(32, m) + v) % m

\* mutant for cell_index: a signed remainder, which leaves -1 at -1
cell_index_signed(grid, x, y) ==
  (IF y < 0 THEN 0 ELSE y % grid.y) * grid.x + (IF x < 0 THEN 0 ELSE x % grid.x)

\* cell_index / indexOf / getIndex: the same function in the three programs
cell_index(grid, x, y) == U32Rem(y, grid.y) * grid.x + U32Rem(x, grid.x)

\* The eight neighbour offsets, in the order the kernels add them up
Neighbours ==
  << <<1, 1>>, <<1, 0>>, <<1, -1>>, <<0, -1>>, <<-1, -1>>, <<-1, 0>>, <<-1, 1>>, <<0, 1>> >>

\* the slots one invocation looks up for its neighbours
NeighbourSlots(grid, x, y) ==
  [k \in 1 .. 8 |-> cell_index(grid, x + Neighbours[k][1], y + Neighbours[k][2])]

(* ------------------------------ kernels ------------------------------- *)
\* mutant for rule: two neighbours give birth as three do
rule_birth_on_two(n, current) == IF n = 2 \/ n = 3 THEN 1 ELSE 0

\* the switch of cmain: case 2 keeps the state, case 3 sets 1, default 0
rule(n, current) == CASE n = 2 -> current [] n = 3 -> 1 [] OTHER -> 0

\* cell_state / stateOf / getState: the state of the slot a lookup resolves to
cell_state(state, grid, x, y) == state[cell_index(grid, x, y)]

\* mutant for active_neighbors: the neighbour above is not counted
active_neighbors_seven(state, grid, cx, cy) ==
  cell_state(state, grid, cx + 1, cy + 1) + cell_state(state, grid, cx + 1, cy) +
  cell_state(state, grid, cx + 1, cy - 1) + cell_state(state, grid, cx, cy - 1) +
  cell_state(state, grid, cx - 1, cy - 1) + cell_state(state, grid, cx - 1, cy) +
  cell_state(state, grid, cx - 1, cy + 1)

\* the sum cmain takes over the eight neighbour lookups
active_neighbors(state, grid, cx, cy) ==
  cell_state(state, grid, cx + 1, cy + 1) + cell_state(state, grid, cx + 1, cy) +
  cell_state(state, grid, cx + 1, cy - 1) + cell_state(state, grid, cx, cy - 1) +
  cell_state(state, grid, cx - 1, cy - 1) + cell_state(state, grid, cx - 1, cy) +
  cell_state(state, grid, cx - 1, cy + 1) + cell_state(state, grid, cx, cy + 1)

\* u32(floor((m + 1) / 2 * g)) for a pointer coordinate m = num / CanvasSize;
\* the conversion to u32 takes a negative value to 0
PointerCell(num, g) ==
  LET v == (num + CanvasSize) * g
  IN  IF v < 0 THEN 0 ELSE v \div (2 * CanvasSize)

mouseGridPosition(m, grid) == <<PointerCell(m.x, grid.x), PointerCell(m.y, grid.y)>>

\* mutant for PaintActive: u32(mouse.z) != 0, any button held
PaintActive_any_button(m) == m.z > 0

\* (u32(mouse.z) & 1) == 1
PaintActive(m) == m.z % 2 = 1

\* part_000: floor(time % 500) > 32, where cmain returns without writing
BurstClosed(t) == (t % 500) > 32

\* the three programs' STEP_RATE
STEP_RATE_001 == 50
STEP_RATE_000 == 200
STEP_RATE_script == 8

\* script: floor(renderInfo.frame % STEP_RATE) > 0, where cmain returns
NotDue(f) == (f % STEP_RATE_script) > 0

\* part_001 cmain, one invocation: the new content of state_out
cmain_001(state_in, state_out, grid, cx, cy) ==
  LET n == active_neighbors(state_in, grid, cx, cy)
      i == cell_index(grid, cx, cy)
  IN  [state_out EXCEPT ![i] = rule(n, state_in[i])]

\* part_000 cmain, one invocation: the new content of gridNextState
cmain_000(t, m, grid, gridCurrentState, gridNextState, cx, cy) ==
  LET i == cell_index(grid, cx, cy)
      n == active_neighbors(gridCurrentState, grid, cx, cy)
  IN  IF PaintActive(m)
      THEN IF mouseGridPosition(m, grid) = <<cx, cy>>
           THEN [gridNextState EXCEPT ![i] = 1]
           ELSE gridNextState
      ELSE IF BurstClosed(t)
      THEN gridNextState
      ELSE [gridNextState EXCEPT ![i] = rule(n, gridCurrentState[i])]

\* script cmain up to the end of its switch, one invocation: the new content
\* of the packed buffer (setNextStateAt writes at offset + index)
cmain_script(info, m, grid, state, cx, cy) ==
  LET i == cell_index(grid, cx, cy)
      offset == grid.x * grid.y
      n == active_neighbors(state, grid, cx, cy)
  IN  IF PaintActive(m)
      THEN IF mouseGridPosition(m, grid) = <<cx, cy>>
           THEN [state EXCEPT ![i] = 1]
           ELSE state
      ELSE IF NotDue(info.frame)
      THEN state
      ELSE [state EXCEPT ![offset + i] = rule(n, state[i])]

\* script cmain, the loop after the switch: every slot of the current half is
\* overwritten by the slot of the next half
copy_script(grid, state) ==
  LET offset == grid.x * grid.y
  IN  [k \in DOMAIN state |-> IF k < offset THEN state[offset + k] ELSE state[k]]

\* whether an invocation of the script kernel goes on to the copy loop
ReachesCopy(info, m) == ~PaintActive(m) /\ ~NotDue(info.frame)

(* ----------------------------- bind groups ---------------------------- *)
\* mutant for bindGroups: both bind groups of part_001 write buffer 1
bindGroups_same_target(v, k) ==
  IF v = "part_001" THEN [read |-> k, write |-> 1]
  ELSE IF v = "part_000" THEN [read |-> 1 - k, write |-> k]
  ELSE [read |-> 0, write |-> 0]

\* the storage buffer a bind group gives the kernel to read (and the vertex
\* stage to draw) and the one it gives the kernel to write
bindGroups(v, k) ==
  IF v = "part_001" THEN [read |-> k, write |-> 1 - k]
  ELSE IF v = "part_000" THEN [read |-> 1 - k, write |-> k]
  ELSE [read |-> 0, write |-> 0]

(* ------------------------------ dispatch ------------------------------ *)
\* Math.ceil(GRID_SIZE / WORKGROUP_SIZE)
workgroupCount == (GRID_SIZE + WORKGROUP_SIZE - 1) \div WORKGROUP_SIZE

Workgroups == (0 .. workgroupCount - 1) \X (0 .. workgroupCount - 1)

\* the global invocation ids of one workgroup
WorkgroupCells(w) ==
  [k \in 1 .. WORKGROUP_SIZE * WORKGROUP_SIZE |->
     << w[1] * WORKGROUP_SIZE + ((k - 1) % WORKGROUP_SIZE),
        w[2] * WORKGROUP_SIZE + ((k - 1) \div WORKGROUP_SIZE) >>]

\* the uniforms the dispatch in flight is bound to
Uniforms == [grid |-> gridSize, mouse |-> mouseData, time |-> timeData, info |-> renderInfoData]

\* one invocation of the variant's kernel on the storage buffers
Invocation(v, u, bg, mem, cx, cy) ==
  IF v = "part_001"
  THEN [mem EXCEPT ![bg.write] = cmain_001(mem[bg.read], mem[bg.write], u.grid, cx, cy)]
  ELSE IF v = "part_000"
  THEN [mem EXCEPT ![bg.write] =
          cmain_000(u.time, u.mouse, u.grid, mem[bg.read], mem[bg.write], cx, cy)]
  ELSE [mem EXCEPT ![0] = cmain_script(u.info, u.mouse, u.grid, mem[0], cx, cy)]

RECURSIVE RunRange(_, _, _, _, _, _, _)
\* the invocations cells[lo..hi] one after the other (they run in lockstep:
\* none of them reads a slot another of them writes in this phase); the
\* memory is handed on as a value, half of the range at a time
RunRange(v, u, bg, mem, cells, lo, hi) ==
  IF lo > hi THEN mem
  ELSE IF lo = hi THEN Invocation(v, u, bg, mem, cells[lo][1], cells[lo][2])
  ELSE LET mid == (lo + hi) \div 2
       IN  CHOOSE after \in {RunRange(v, u, bg, half, cells, mid + 1, hi) :
                               half \in {RunRange(v, u, bg, mem, cells, lo, mid)}} : TRUE

\* the invocations cells[k..]
RunCells(v, u, bg, mem, cells, k) == RunRange(v, u, bg, mem, cells, k, Len(cells))

\* whether cmain returns before its neighbour count
ReturnsEarly(v, u) ==
  \/ v # "part_001" /\ PaintActive(u.mouse)
  \/ v = "part_000" /\ BurstClosed(u.time)
  \/ v = "script" /\ NotDue(u.info.frame)

\* the slots one invocation reads for its neighbour count and, in case 2 of
\* the switch, for its own state
StateReads(v, u, bg, mem, cx, cy) ==
  IF ReturnsEarly(v, u) THEN {}
  ELSE {<<bg.read, NeighbourSlots(u.grid, cx, cy)[k]>> : k \in 1 .. 8}
       \cup (IF active_neighbors(mem[bg.read], u.grid, cx, cy) = 2
             THEN {<<bg.read, cell_index(u.grid, cx, cy)>>} ELSE {})

\* mutant for RuleWrites: every invocation of a paint step writes the slot of
\* the pointer's target cell, row * width + column, without a test of the cell
RuleWrites_at_target(v, u, bg, cx, cy) ==
  LET i == cell_index(u.grid, cx, cy)
      target == mouseGridPosition(u.mouse, u.grid)
  IN  IF v # "part_001" /\ PaintActive(u.mouse)
      THEN {<<bg.write, target[2] * u.grid.x + target[1]>>}
      ELSE IF ReturnsEarly(v, u) THEN {}
      ELSE {<<bg.write, IF v = "script" THEN u.grid.x * u.grid.y + i ELSE i>>}

\* the slots one invocation writes, up to the end of its switch
RuleWrites(v, u, bg, cx, cy) ==
  LET i == cell_index(u.grid, cx, cy)
  IN  IF v # "part_001" /\ PaintActive(u.mouse)
      THEN IF mouseGridPosition(u.mouse, u.grid) = <<cx, cy>>
           THEN {<<bg.write, i>>} ELSE {}
      ELSE IF ReturnsEarly(v, u) THEN {}
      ELSE {<<bg.write, IF v = "script" THEN u.grid.x * u.grid.y + i ELSE i>>}

CellSet(w) == {WorkgroupCells(w)[k] : k \in DOMAIN WorkgroupCells(w)}

\* one workgroup runs its invocations up to the end of the switch
RulePhase(w) ==
  /\ pc[w] = "rule"
  /\ LET bg == bindGroups(variant, bound)
         rd == UNION {StateReads(variant, Uniforms, bg, gridStateBuffers, c[1], c[2]) :
                        c \in CellSet(w)}
         wr == UNION {RuleWrites(variant, Uniforms, bg, c[1], c[2]) : c \in CellSet(w)}
     IN  /\ gridStateBuffers' =
              RunCells(variant, Uniforms, bg, gridStateBuffers, WorkgroupCells(w), 1)
         /\ reads' = reads \cup rd
         /\ writes' = writes \cup wr
         /\ dirty' = dirty \cup (rd \cap writes)
  /\ pc' = [pc EXCEPT ![w] =
              IF variant = "script" /\ ReachesCopy(renderInfoData, mouseData)
              THEN "copy" ELSE "done"]
  /\ UNCHANGED <<variant, gridSize, mouseData, timeData, renderInfoData, bound, memBefore>>
  /\ UNCHANGED <<hostVars, probe, boot>>

\* script: one workgroup runs the copy loop that ends cmain
CopyPhase(w) ==
  /\ pc[w] = "copy"
  /\ gridStateBuffers' =
       [gridStateBuffers EXCEPT ![0] = copy_script(gridSize, gridStateBuffers[0])]
  /\ writes' = writes \cup {<<0, i>> : i \in Slots}
  /\ pc' = [pc EXCEPT ![w] = "done"]
  /\ UNCHANGED <<variant, gridSize, mouseData, timeData, renderInfoData, bound,
                 reads, dirty, memBefore>>
  /\ UNCHANGED <<hostVars, probe, boot>>

DispatchDone == \A w \in Workgroups : pc[w] = "done"

(* ------------------------------ startup ------------------------------ *)
\* what the host gives getWebGPU: navigator.gpu, an adapter, a "webgpu" context
Hosts == [gpu : BOOLEAN, adapter : BOOLEAN, context : BOOLEAN]

\* startup over: getWebGPU has returned and main has run to its end
Booted ==
  [phase |-> "running", env |-> [gpu |-> TRUE, adapter |-> TRUE, context |-> TRUE],
   message |-> "", alerted |-> ""]

(* ------------------- specification: addressing alone ------------------ *)
MouseStart == [x |-> 0, y |-> 0, z |-> 0]

RenderInfoStart == [frame |-> 0, time |-> 0, lastRenderTime |-> 0]

\* the host side where a specification leaves it out: no frame is ever run
HostIdle ==
  /\ mouse = [x |-> 0, y |-> 0, pressed |-> 0]
  /\ time = 0 /\ step = 0
  /\ lastUpdateTime = 0 /\ lastSimulationTime = 0 /\ lastRenderTime = 0
  /\ frame = 0 /\ scheduled = 0
  /\ batch = << >> /\ renderPending = FALSE
  /\ rendered = << >>
  /\ events = 0
  /\ boot = Booted

GridSizes == {8 * k : k \in 1 .. MaxGridBlocks}

NoProbe == [x |-> -1, y |-> -1, slots |-> << >>]

InitIndex ==
  /\ variant = "part_001"
  /\ gridSize \in {[x |-> g, y |-> g] : g \in GridSizes}
  /\ gridStateBuffers = [b \in 0 .. 1 |-> [i \in Slots |-> 0]]
  /\ mouseData = [x |-> 0, y |-> 0, z |-> 0]
  /\ timeData = 0
  /\ renderInfoData = [frame |-> 0, time |-> 0, lastRenderTime |-> 0]
  /\ bound = 0
  /\ pc = [w \in Workgroups |-> "done"]
  /\ reads = {} /\ writes = {} /\ dirty = {}
  /\ memBefore = gridStateBuffers
  /\ HostIdle
  /\ probe = NoProbe

\* one invocation computes its eight neighbour slots
Lookup ==
  /\ probe = NoProbe
  /\ \E x \in 0 .. gridSize.x - 1, y \in 0 .. gridSize.y - 1 :
       probe' = [x |-> x, y |-> y, slots |-> NeighbourSlots(gridSize, x, y)]
  /\ UNCHANGED <<variant, gridSize, gpuVars, hostVars, boot>>

NextIndex == Lookup

SpecIndex == InitIndex /\ [][NextIndex]_vars

(* ---------------- specification: one dispatch of a kernel ------------- *)
\* the cells a start pattern may hold alive: (0,0) and cells around it, across
\* the edges of the grid
SeedOrder ==
  << <<0, 0>>, <<1, 0>>, <<GRID_SIZE - 1, 0>>, <<0, 1>>, <<0, GRID_SIZE - 1>>,
     <<1, 1>>, <<GRID_SIZE - 1, GRID_SIZE - 1>>, <<2, 1>> >>

PatternOf(S) ==
  [i \in Slots |-> IF \E k \in S : SeedOrder[k][2] * GRID_SIZE + SeedOrder[k][1] = i
                   THEN 1 ELSE 0]

Patterns == {PatternOf(S) : S \in SUBSET (1 .. SeedCount)}

Zeros == [i \in Slots |-> 0]

Ones == [i \in Slots |-> 1]

\* the packed buffer holding cur in its current half and nxt in its next half
Packed(cur, nxt) ==
  [k \in 0 .. 2 * CellCount - 1 |-> IF k < CellCount THEN cur[k] ELSE nxt[k - CellCount]]

\* the mousemove handler's x and y for a pointer at pixel (ox, oy):
\* x = ox / width * 2 - 1 and y = oy / height * -2 + 1, over CanvasSize
PointerAt(ox, oy) == [x |-> 2 * ox - CanvasSize, y |-> CanvasSize - 2 * oy]

PointerOffsets == 0 .. CanvasSize - 1

\* pointer snapshots: the buttons a mousedown or mouseup reports (primary 1,
\* secondary 2) with the pointer where a mousemove left it
Buttons == 0 .. 3

MouseSnapshots ==
  {[x |-> PointerAt(ox, oy).x, y |-> PointerAt(ox, oy).y, z |-> b] :
     ox \in PointerOffsets, oy \in PointerOffsets, b \in Buttons}

KernelTimes == {0, 32, 33, 500}

KernelFrames == {0, 1}

\* the storage buffers of a two-buffer program, rd read and wr written by
\* bind group k
TwoBuffers(v, k, rd, wr) ==
  [b \in 0 .. 1 |-> IF b = bindGroups(v, k).read THEN rd ELSE wr]

\* pointer positions of the paint scenarios: the diagonal and the first
\* pixel row and column, which between them reach every cell row and column
PaintOffsets ==
  {o \in PointerOffsets \X PointerOffsets : o[1] = o[2] \/ o[1] = 0 \/ o[2] = 0}

\* the uniforms of one dispatch: a rule scenario (primary button up, pointer
\* where the program starts it) or a paint scenario (primary button down)
KernelUniforms(v, m, t, info) ==
  /\ v = "part_001" => (m = MouseStart /\ t = 0 /\ info = RenderInfoStart)
  /\ v = "part_000" => info = RenderInfoStart
  /\ v = "script" => t = 0
  /\ \/ m \in {[MouseStart EXCEPT !.z = b] : b \in {0, 2}}
     \/ /\ v # "part_001"
        /\ m \in {[x |-> PointerAt(o[1], o[2]).x, y |-> PointerAt(o[1], o[2]).y, z |-> 1] :
                    o \in PaintOffsets} \cup {[MouseStart EXCEPT !.z = 3]}
        /\ t \in {0, 33}
        /\ info.frame \in {0, 1}

InitKernel ==
  /\ variant \in Variants
  /\ gridSize = [x |-> GRID_SIZE, y |-> GRID_SIZE]
  /\ bound \in 0 .. 1
  /\ variant = "script" => bound = 0
  /\ mouseData \in MouseSnapshots
  /\ timeData \in KernelTimes
  /\ renderInfoData \in {[RenderInfoStart EXCEPT !.frame = f] : f \in KernelFrames}
  /\ KernelUniforms(variant, mouseData, timeData, renderInfoData)
  /\ \E cur \in Patterns, stale \in {Zeros, Ones, PatternOf({1, 2, 3})} :
       /\ (PaintActive(mouseData) \/ mouseData.z = 2)
            => cur \in {Zeros, PatternOf(1 .. SeedCount)}
       /\ gridStateBuffers =
            IF variant = "script" THEN [b \in {0} |-> Packed(cur, stale)]
            ELSE TwoBuffers(variant, bound, cur, stale)
  /\ pc = [w \in Workgroups |-> "rule"]
  /\ reads = {} /\ writes = {} /\ dirty = {}
  /\ memBefore = gridStateBuffers
  /\ HostIdle
  /\ probe = NoProbe

NextKernel ==
  \/ \E w \in Workgroups : RulePhase(w)
  \/ \E w \in Workgroups : CopyPhase(w)

SpecKernel == InitKernel /\ [][NextKernel]_vars

(* --------------------- specification: the frame loops ----------------- *)
\* every invocation of dispatchWorkgroups(workgroupCount, workgroupCount)
AllCells ==
  LET extent == workgroupCount * WORKGROUP_SIZE
  IN  [k \in 1 .. extent * extent |-> <<(k - 1) % extent, (k - 1) \div extent>>]

\* a whole dispatch of a two-buffer kernel: its invocations read one buffer and
\* write the other, so their order does not show
DispatchAll(v, u, bg, mem) == RunCells(v, u, bg, mem, AllCells, 1)

AllReads(v, u, bg, mem) ==
  UNION {StateReads(v, u, bg, mem, AllCells[k][1], AllCells[k][2]) : k \in DOMAIN AllCells}

AllWrites(v, u, bg) ==
  UNION {RuleWrites(v, u, bg, AllCells[k][1], AllCells[k][2]) : k \in DOMAIN AllCells}

\* the passes a frame records in its command encoder
ComputePass(k) == [pass |-> "compute", group |-> k, workgroups |-> workgroupCount]

RenderPass(k) == [pass |-> "render", group |-> k, instances |-> GRID_SIZE * GRID_SIZE]

\* what vmain reads of the buffer a bind group gives it: one slot per instance
Drawn(v, k, mem) == [i \in Slots |-> mem[bindGroups(v, k).read][i]]

\* the increments of the frame timestamp between two callbacks, in ms
Deltas_001 == {10, 16, 110}

Deltas_000 == {0, 16, 467}

Deltas_script == {16}

\* the pixels the pointer stops at in the frame loops: the centre of the
\* canvas, where it starts, and a pixel of the top left cell
PointerStops == { <<CanvasSize \div 2, CanvasSize \div 2>>, <<1, 1>> }

\* event.buttons as the frame loops see it: none, the primary button, the
\* secondary button
FrameButtons == 0 .. 2

\* the seeds of the frame loops: no cell, three cells in a row, all seed cells
FramePatterns == {Zeros, PatternOf({1, 2, 3}), PatternOf(1 .. SeedCount)}

\* mouseData.set([mouse.y, mouse.x, mouse.pressed]): the coordinates exchanged
mouseDataSet_swapped(m) == [x |-> m.y, y |-> m.x, z |-> m.pressed]

\* mouseData.set([mouse.x, mouse.y, mouse.pressed]) and its writeBuffer: the
\* three fields are read in one statement of the frame callback
mouseDataSet(m) == [x |-> m.x, y |-> m.y, z |-> m.pressed]

\* mutant for requestAnimationFrame: the callback is not registered
requestAnimationFrame_dropped(pending) == pending

\* requestAnimationFrame(callback): one more callback is pending
requestAnimationFrame(pending) == pending + 1

\* mutant for due_001: a step as soon as half of STEP_RATE has passed
due_001_half(updateTimeDelta) == 2 * updateTimeDelta >= STEP_RATE_001

\* mutant for due_001: a step on every frame
due_001_always(updateTimeDelta) == TRUE

\* part_001: updateTimeDelta >= STEP_RATE
due_001(updateTimeDelta) == updateTimeDelta >= STEP_RATE_001

\* part_000: simulationTimeDelta >= 1 (STEP_RATE is not read)
due_000(simulationTimeDelta) == simulationTimeDelta >= 1

\* the state main leaves when it has registered its first callback
HostStart ==
  /\ mouse = [x |-> 0, y |-> 0, pressed |-> 0]
  /\ mouseData = MouseStart
  /\ timeData = 0
  /\ renderInfoData = RenderInfoStart
  /\ time = 0
  /\ lastUpdateTime = 0 /\ lastSimulationTime = 0 /\ lastRenderTime = 0
  /\ frame = 0
  /\ scheduled = 1
  /\ batch = << >> /\ renderPending = FALSE
  /\ rendered = << >>
  /\ events = 0
  /\ boot = Booted
  /\ bound = 0
  /\ pc = [w \in Workgroups |-> "done"]
  /\ reads = {} /\ writes = {} /\ dirty = {}
  /\ memBefore = gridStateBuffers
  /\ gridSize = [x |-> GRID_SIZE, y |-> GRID_SIZE]
  /\ probe = NoProbe

\* part_001 main: buffer 1 is written while gridStateData is still zero,
\* buffer 0 after the random fill
Init_001 ==
  /\ variant = "part_001"
  /\ \E seed \in FramePatterns : gridStateBuffers = [b \in 0 .. 1 |-> IF b = 0 THEN seed ELSE Zeros]
  /\ step = 0
  /\ HostStart

\* part_000 main: both buffers are written after the random fill
Init_000 ==
  /\ variant = "part_000"
  /\ \E seed \in FramePatterns : gridStateBuffers = [b \in 0 .. 1 |-> seed]
  /\ step = 1
  /\ HostStart

\* script main: the random fill runs over both halves of the packed buffer
Init_script ==
  /\ variant = "script"
  /\ \E cur \in {Zeros, PatternOf(1 .. SeedCount)}, nxt \in {Zeros, PatternOf({1, 2, 3})} :
       gridStateBuffers = [b \in {0} |-> Packed(cur, nxt)]
  /\ step = 0
  /\ HostStart

\* part_001: draw(time)
draw ==
  /\ variant = "part_001"
  /\ scheduled > 0 /\ frame < MaxFrames_001
  /\ \E d \in Deltas_001 :
       LET t == time + d
           updateTimeDelta == t - lastUpdateTime
           due == due_001(updateTimeDelta)
           bg == bindGroups(variant, step % 2)
           step1 == IF due THEN step + 1 ELSE step
           mem1 == IF due THEN DispatchAll(variant, Uniforms, bg, gridStateBuffers)
                   ELSE gridStateBuffers
       IN  /\ time' = t
           /\ gridStateBuffers' = mem1
           /\ step' = step1
           /\ lastUpdateTime' = IF due THEN t ELSE lastUpdateTime
           /\ bound' = IF due THEN step % 2 ELSE bound
           /\ memBefore' = IF due THEN gridStateBuffers ELSE memBefore
           /\ reads' = IF due THEN AllReads(variant, Uniforms, bg, gridStateBuffers) ELSE reads
           /\ writes' = IF due THEN AllWrites(variant, Uniforms, bg) ELSE writes
           /\ batch' = IF due THEN <<ComputePass(step % 2), RenderPass(step1 % 2)>>
                       ELSE <<RenderPass(step1 % 2)>>
           /\ rendered' = Drawn(variant, step1 % 2, mem1)
  /\ frame' = frame + 1
  /\ scheduled' = requestAnimationFrame(scheduled - 1)
  /\ UNCHANGED <<variant, gridSize, mouseData, timeData, renderInfoData, pc, dirty, probe, boot>>
  /\ UNCHANGED <<mouse, lastSimulationTime, lastRenderTime, renderPending, events>>

\* part_000: render(time)
render_000 ==
  /\ variant = "part_000"
  /\ scheduled > 0 /\ frame < MaxFrames_000
  /\ \E d \in Deltas_000 :
       LET t == time + d
           simulationTimeDelta == t - lastSimulationTime
           due == due_000(simulationTimeDelta)
           u == [grid |-> gridSize,
                 mouse |-> mouseDataSet(mouse),
                 time |-> t, info |-> renderInfoData]
           step1 == IF due THEN step + 1 ELSE step
           bg == bindGroups(variant, step1 % 2)
           mem1 == IF due THEN DispatchAll(variant, u, bg, gridStateBuffers)
                   ELSE gridStateBuffers
       IN  /\ time' = t
           /\ lastRenderTime' = t
           /\ timeData' = u.time
           /\ mouseData' = u.mouse
           /\ lastSimulationTime' = IF due THEN t ELSE lastSimulationTime
           /\ step' = step1
           /\ gridStateBuffers' = mem1
           /\ bound' = IF due THEN step1 % 2 ELSE bound
           /\ memBefore' = IF due THEN gridStateBuffers ELSE memBefore
           /\ reads' = IF due THEN AllReads(variant, u, bg, gridStateBuffers) ELSE reads
           /\ writes' = IF due THEN AllWrites(variant, u, bg) ELSE writes
           /\ batch' = IF due THEN <<ComputePass(step1 % 2), RenderPass(step1 % 2)>>
                       ELSE <<RenderPass(step1 % 2)>>
           /\ rendered' = Drawn(variant, step1 % 2, mem1)
  /\ frame' = frame + 1
  /\ scheduled' = requestAnimationFrame(scheduled) - 1
  /\ UNCHANGED <<variant, gridSize, renderInfoData, pc, dirty, probe, boot>>
  /\ UNCHANGED <<mouse, lastUpdateTime, renderPending, events>>

\* the listeners run on the JS thread between two frame callbacks, and only
\* the next callback reads what they write: they are taken when the batch of
\* the last callback has run to its end
BetweenBatches == DispatchDone /\ ~renderPending

\* script: render(time), up to the submit; the passes run after it
render_script ==
  /\ variant = "script"
  /\ scheduled > 0 /\ frame < MaxFrames_script
  /\ BetweenBatches
  /\ \E d \in Deltas_script :
       LET t == time + d
       IN  /\ time' = t
           /\ lastRenderTime' = t
           /\ renderInfoData' = [frame |-> frame, time |-> t, lastRenderTime |-> t]
  /\ mouseData' = mouseDataSet(mouse)
  /\ batch' = <<ComputePass(0), RenderPass(0)>>
  /\ bound' = 0
  /\ pc' = [w \in Workgroups |-> "rule"]
  /\ reads' = {} /\ writes' = {} /\ dirty' = {}
  /\ memBefore' = gridStateBuffers
  /\ renderPending' = TRUE
  /\ frame' = frame + 1
  /\ scheduled' = requestAnimationFrame(scheduled - 1)
  /\ UNCHANGED <<variant, gridSize, gridStateBuffers, timeData, probe, boot>>
  /\ UNCHANGED <<mouse, step, lastUpdateTime, lastSimulationTime, rendered, events>>

\* script: the render pass of the submitted batch, after its compute pass
renderPass_script ==
  /\ variant = "script"
  /\ renderPending /\ DispatchDone
  /\ rendered' = Drawn(variant, 0, gridStateBuffers)
  /\ renderPending' = FALSE
  /\ UNCHANGED <<variant, gridSize, gpuVars, probe, boot>>
  /\ UNCHANGED <<mouse, time, step, lastUpdateTime, lastSimulationTime, lastRenderTime,
                 frame, scheduled, batch, events>>

\* the mousedown listener: mouse.pressed = event.buttons
mousedownListener ==
  /\ variant # "part_001"
  /\ events < MaxPointerEvents /\ events' = events + 1
  /\ \E b \in FrameButtons \ {0} : mouse' = [mouse EXCEPT !.pressed = b]
  /\ mouse' # mouse
  /\ UNCHANGED <<variant, gridSize, gpuVars, probe, boot>>
  /\ UNCHANGED <<time, step, lastUpdateTime, lastSimulationTime, lastRenderTime, frame,
                 scheduled, batch, renderPending, rendered>>

\* the mouseup listener: mouse.pressed = event.buttons
mouseupListener ==
  /\ variant # "part_001"
  /\ events < MaxPointerEvents /\ events' = events + 1
  /\ \E b \in FrameButtons \ {2} : mouse' = [mouse EXCEPT !.pressed = b]
  /\ mouse' # mouse
  /\ UNCHANGED <<variant, gridSize, gpuVars, probe, boot>>
  /\ UNCHANGED <<time, step, lastUpdateTime, lastSimulationTime, lastRenderTime, frame,
                 scheduled, batch, renderPending, rendered>>

\* the mousemove listener
mousemoveListener ==
  /\ variant # "part_001"
  /\ events < MaxPointerEvents /\ events' = events + 1
  /\ \E o \in PointerStops :
       mouse' = [mouse EXCEPT !.x = PointerAt(o[1], o[2]).x, !.y = PointerAt(o[1], o[2]).y]
  /\ mouse' # mouse
  /\ UNCHANGED <<variant, gridSize, gpuVars, probe, boot>>
  /\ UNCHANGED <<time, step, lastUpdateTime, lastSimulationTime, lastRenderTime, frame,
                 scheduled, batch, renderPending, rendered>>

\* the listeners as the frame loops take them: between two batches
mousedown == BetweenBatches /\ mousedownListener

mouseup == BetweenBatches /\ mouseupListener

mousemove == BetweenBatches /\ mousemoveListener

Init == Init_001 \/ Init_000 \/ Init_script

Next ==
  \/ draw
  \/ render_000
  \/ render_script
  \/ \E w \in Workgroups : RulePhase(w)
  \/ \E w \in Workgroups : CopyPhase(w)
  \/ renderPass_script
  \/ mousedown
  \/ mouseup
  \/ mousemove

Spec == Init /\ [][Next]_vars

Spec_001 == Init_001 /\ [][draw]_vars

Next_000 == render_000 \/ mousedown \/ mouseup \/ mousemove

Spec_000 == Init_000 /\ [][Next_000]_vars

Next_script ==
  \/ render_script
  \/ \E w \in Workgroups : RulePhase(w)
  \/ \E w \in Workgroups : CopyPhase(w)
  \/ renderPass_script
  \/ mousedown
  \/ mouseup
  \/ mousemove

Spec_script == Init_script /\ [][Next_script]_vars

(* ------------------- specification: part_001 from a blinker ------------ *)
\* three cells in a row through cell (0, 0), across the left edge
BlinkerSeed == PatternOf({1, 2, 3})

\* part_001 main, the random fill having drawn the blinker
Init_blinker ==
  /\ variant = "part_001"
  /\ gridStateBuffers = [b \in 0 .. 1 |-> IF b = 0 THEN BlinkerSeed ELSE Zeros]
  /\ step = 0
  /\ HostStart

Spec_blinker == Init_blinker /\ [][draw]_vars

(* ------------------------ specification: startup ----------------------- *)
\* the storage main has not allocated yet
Unallocated(v) ==
  IF v = "script" THEN [b \in {0} |-> Packed(Zeros, Zeros)] ELSE [b \in 0 .. 1 |-> Zeros]

\* the storage main leaves (the buffers of Init_001, Init_000, Init_script)
Seeded(v) ==
  IF v = "part_001" THEN {[b \in 0 .. 1 |-> IF b = 0 THEN seed ELSE Zeros] : seed \in FramePatterns}
  ELSE IF v = "part_000" THEN {[b \in 0 .. 1 |-> seed] : seed \in FramePatterns}
  ELSE {[b \in {0} |-> Packed(cur, nxt)] :
          cur \in {Zeros, PatternOf(1 .. SeedCount)}, nxt \in {Zeros, PatternOf({1, 2, 3})}}

\* the script is loaded and main() is called: getWebGPU has not run yet
Init_startup ==
  /\ variant \in Variants
  /\ boot \in {[phase |-> "start", env |-> h, message |-> "", alerted |-> ""] : h \in Hosts}
  /\ gridStateBuffers = Unallocated(variant)
  /\ step = 0
  /\ mouse = [x |-> 0, y |-> 0, pressed |-> 0]
  /\ mouseData = MouseStart
  /\ timeData = 0
  /\ renderInfoData = RenderInfoStart
  /\ time = 0
  /\ lastUpdateTime = 0 /\ lastSimulationTime = 0 /\ lastRenderTime = 0
  /\ frame = 0
  /\ scheduled = 0
  /\ batch = << >> /\ renderPending = FALSE
  /\ rendered = << >>
  /\ events = 0
  /\ bound = 0
  /\ pc = [w \in Workgroups |-> "done"]
  /\ reads = {} /\ writes = {} /\ dirty = {}
  /\ memBefore = gridStateBuffers
  /\ gridSize = [x |-> GRID_SIZE, y |-> GRID_SIZE]
  /\ probe = NoProbe

\* the promise of main is rejected with Error(message)
Throw(message) == [boot EXCEPT !.phase = "rejected", !.message = message]

\* getWebGPU: if (!navigator.gpu) throw
getWebGPU_gpu ==
  /\ boot.phase = "start"
  /\ boot' = IF boot.env.gpu THEN [boot EXCEPT !.phase = "adapter"]
             ELSE Throw("WebGPU not supported.")
  /\ UNCHANGED <<variant, gridSize, gpuVars, hostVars, probe>>

\* getWebGPU: requestAdapter; if (!adapter) throw
getWebGPU_adapter ==
  /\ boot.phase = "adapter"
  /\ boot' = IF boot.env.adapter THEN [boot EXCEPT !.phase = "context"]
             ELSE Throw("No GPUAdapter found.")
  /\ UNCHANGED <<variant, gridSize, gpuVars, hostVars, probe>>

\* getWebGPU: getContext("webgpu"); if (!context) throw
getWebGPU_context ==
  /\ boot.phase = "context"
  /\ boot' = IF boot.env.context THEN [boot EXCEPT !.phase = "setup"]
             ELSE Throw("WebGPU context failed.")
  /\ UNCHANGED <<variant, gridSize, gpuVars, hostVars, probe>>

\* main after getWebGPU, down to its requestAnimationFrame
main_setup ==
  /\ boot.phase = "setup"
  /\ gridStateBuffers' \in Seeded(variant)
  /\ memBefore' = gridStateBuffers'
  /\ step' = IF variant = "part_000" THEN 1 ELSE 0
  /\ scheduled' = requestAnimationFrame(scheduled)
  /\ boot' = [boot EXCEPT !.phase = "running"]
  /\ UNCHANGED <<variant, gridSize, mouseData, timeData, renderInfoData, bound, pc,
                 reads, writes, dirty, probe>>
  /\ UNCHANGED <<mouse, time, lastUpdateTime, lastSimulationTime, lastRenderTime, frame,
                 batch, renderPending, rendered, events>>

\* script: main().catch((err) => alert(err.message))
main_catch ==
  /\ variant = "script"
  /\ boot.phase = "rejected"
  /\ boot' = [boot EXCEPT !.phase = "handled", !.alerted = boot.message]
  /\ UNCHANGED <<variant, gridSize, gpuVars, hostVars, probe>>

\* main of the three programs and the frame loops it starts (pointer events
\* left out)
Next_startup ==
  \/ getWebGPU_gpu
  \/ getWebGPU_adapter
  \/ getWebGPU_context
  \/ main_setup
  \/ main_catch
  \/ draw
  \/ render_000
  \/ render_script
  \/ \E w \in Workgroups : RulePhase(w)
  \/ \E w \in Workgroups : CopyPhase(w)
  \/ renderPass_script

Spec_startup == Init_startup /\ [][Next_startup]_vars

(* --------------------- specification: the vertex stage ----------------- *)
\* 4 * CELL_SIZE: 0.5 in part_001 and part_000, 0.75 in script
CellSize4(v) == IF v = "script" THEN 3 ELSE 2

\* cellVertexData, times 4: the six vertices of the two triangles of a quad
cellVertexData(v) ==
  LET c == CellSize4(v)
  IN  << <<-c, -c>>, <<c, -c>>, <<c, c>>, <<-c, -c>>, <<c, c>>, <<-c, c>> >>

\* mutant for vmain: the vertex is not scaled by the state of the slot
vmain_unscaled(grid, state, index, position) ==
  LET cell == <<index % grid.x, index \div grid.x>>
  IN  [cell |-> cell,
       position |-> << position[1] + 4 - 4 * grid.x + 8 * cell[1],
                       position[2] + 4 - 4 * grid.y + 8 * cell[2] >>]

\* vmain for one vertex (given times 4) of instance index: the cell, and the
\* clip-space position (position * state[index] + 1) / grid - 1 + cell / grid * 2
\* as numerators over 4 * grid
vmain(grid, state, index, position) ==
  LET cell == <<index % grid.x, index \div grid.x>>
  IN  [cell |-> cell,
       position |-> << position[1] * state[index] + 4 - 4 * grid.x + 8 * cell[1],
                       position[2] * state[index] + 4 - 4 * grid.y + 8 * cell[2] >>]

\* a render pass is about to draw a buffer holding any pattern
InitRender ==
  /\ variant \in Variants
  /\ gridSize = [x |-> GRID_SIZE, y |-> GRID_SIZE]
  /\ bound \in 0 .. 1
  /\ \E shown \in Patterns, other \in {Zeros, Ones} :
       gridStateBuffers =
         IF variant = "script" THEN [b \in {0} |-> Packed(shown, other)]
         ELSE [b \in 0 .. 1 |-> IF b = bindGroups(variant, bound).read THEN shown ELSE other]
  /\ mouseData = MouseStart
  /\ timeData = 0
  /\ renderInfoData = RenderInfoStart
  /\ pc = [w \in Workgroups |-> "done"]
  /\ reads = {} /\ writes = {} /\ dirty = {}
  /\ memBefore = gridStateBuffers
  /\ HostIdle
  /\ probe = NoProbe

\* renderPass.draw: the vertex stage runs on the six vertices of one instance
drawInstance ==
  /\ probe = NoProbe
  /\ \E index \in 0 .. GRID_SIZE * GRID_SIZE - 1 :
       probe' = [instance |-> index,
                 out |-> [k \in 1 .. 6 |->
                            vmain(gridSize, gridStateBuffers[bindGroups(variant, bound).read],
                                  index, cellVertexData(variant)[k])]]
  /\ UNCHANGED <<variant, gridSize, gpuVars, hostVars, boot>>

SpecRender == InitRender /\ [][drawInstance]_vars

(* -------------------- specification: the fragment stage ---------------- *)
\* keyframeLength and keyframesTotal of the shaders of part_000 and script
keyframeLength == 1000
keyframesTotal == 9

\* the times a frame is shaded at: every ShadeStep ms up to MaxShadeSteps steps
ShadeTimes == {ShadeStep * k : k \in 0 .. MaxShadeSteps}

\* fmain: the two indices into keyframes and the numerator of the progress
\* over keyframeLength: u32(floor(t / keyframeLength) % keyframesTotal), that
\* index + 1, fract(t / keyframeLength)
fmain(t) ==
  LET keyframeIndex == (t \div keyframeLength) % keyframesTotal
  IN  [from |-> keyframeIndex, to |-> keyframeIndex + 1, progress |-> t % keyframeLength]

\* the entries of keyframes an index expression may read: the entry itself, or
\* for an index outside the table any entry
Fetched(index) == IF index \in 0 .. keyframesTotal - 1 THEN {index} ELSE 0 .. keyframesTotal - 1

\* a render pass of part_000 or script is about to shade at some time
InitShade ==
  /\ variant \in {"part_000", "script"}
  /\ gridSize = [x |-> GRID_SIZE, y |-> GRID_SIZE]
  /\ bound = 0
  /\ gridStateBuffers = Unallocated(variant)
  /\ \E t \in ShadeTimes :
       /\ timeData = (IF variant = "part_000" THEN t ELSE 0)
       /\ renderInfoData =
            IF variant = "script" THEN [frame |-> 0, time |-> t, lastRenderTime |-> t]
            ELSE RenderInfoStart
  /\ mouseData = MouseStart
  /\ pc = [w \in Workgroups |-> "done"]
  /\ reads = {} /\ writes = {} /\ dirty = {}
  /\ memBefore = gridStateBuffers
  /\ HostIdle
  /\ probe = NoProbe

\* the fragment stage runs on one fragment
shadeFragment ==
  /\ probe = NoProbe
  /\ LET t == IF variant = "part_000" THEN timeData ELSE renderInfoData.time
     IN  \E a \in Fetched(fmain(t).from), b \in Fetched(fmain(t).to) :
           probe' = [time |-> t, index |-> fmain(t), mixed |-> <<a, b>>]
  /\ UNCHANGED <<variant, gridSize, gpuVars, hostVars, boot>>

SpecShade == InitShade /\ [][shadeFragment]_vars

(* ------------- specification: the frame loops, host and GPU fair -------- *)
\* the loops of part_000 and script with no pointer event, script from one of
\* its seeds
Init_loop ==
  \/ Init_000
  \/ Init_script /\ gridStateBuffers[0] = Packed(PatternOf(1 .. SeedCount), PatternOf({1, 2, 3}))

Next_loop ==
  \/ render_000
  \/ render_script
  \/ \E w \in Workgroups : RulePhase(w)
  \/ \E w \in Workgroups : CopyPhase(w)
  \/ renderPass_script

\* the host keeps issuing the callbacks registered with it, and the GPU runs
\* the passes submitted to it
Spec_loop ==
  /\ Init_loop /\ [][Next_loop]_vars
  /\ WF_vars(render_000) /\ WF_vars(render_script)
  /\ WF_vars(\E w \in Workgroups : RulePhase(w))
  /\ WF_vars(\E w \in Workgroups : CopyPhase(w))
  /\ WF_vars(renderPass_script)

(* ------------- specification: the pointer and the frame loops ---------- *)
\* part_000 and script with their listeners: an event is taken whenever the
\* JS thread is free, also while the GPU works through a submitted batch
Next_pointer ==
  \/ frame < MaxPointerFrames /\ render_000
  \/ frame < MaxPointerFrames /\ render_script
  \/ \E w \in Workgroups : RulePhase(w)
  \/ \E w \in Workgroups : CopyPhase(w)
  \/ renderPass_script
  \/ mousedownListener
  \/ mouseupListener
  \/ mousemoveListener

Spec_pointer == Init_loop /\ [][Next_pointer]_vars

(* ------------- specification: paint steps, pointer anywhere ------------ *)
\* offsetX and offsetY of a mousemove: every pixel of the canvas and one
\* pixel beyond it on each side
OutsideOffsets == -1 .. CanvasSize

\* snapshots with the primary button down (alone or with the secondary one)
PaintSnapshots ==
  {[x |-> PointerAt(ox, oy).x, y |-> PointerAt(ox, oy).y, z |-> b] :
     ox \in OutsideOffsets, oy \in OutsideOffsets, b \in {1, 3}}

InitPaint ==
  /\ variant \in {"part_000", "script"}
  /\ gridSize = [x |-> GRID_SIZE, y |-> GRID_SIZE]
  /\ bound \in 0 .. 1
  /\ variant = "script" => bound = 0
  /\ mouseData \in PaintSnapshots
  /\ timeData \in {0, 33}
  /\ renderInfoData = RenderInfoStart
  /\ \E cur \in {Zeros, PatternOf(1 .. SeedCount)} :
       gridStateBuffers =
         IF variant = "script" THEN [b \in {0} |-> Packed(cur, Zeros)]
         ELSE TwoBuffers(variant, bound, cur, Zeros)
  /\ pc = [w \in Workgroups |-> "rule"]
  /\ reads = {} /\ writes = {} /\ dirty = {}
  /\ memBefore = gridStateBuffers
  /\ HostIdle
  /\ probe = NoProbe

NextPaint == \E w \in Workgroups : RulePhase(w)

SpecPaint == InitPaint /\ [][NextPaint]_vars

(* ------------------- the rule, as the claims state it ----------------- *)
\* the slot of cell ((x+dx) mod width, (y+dy) mod height), mathematical modulo
ToroidalSlot(grid, x, y, dx, dy) == ((y + dy) % grid.y) * grid.x + ((x + dx) % grid.x)

RECURSIVE AliveAmong(_, _, _, _, _)
\* how many of the offsets Neighbours[k..] of cell (x, y) are alive in gen
AliveAmong(gen, grid, x, y, k) ==
  IF k > 8 THEN 0
  ELSE gen[ToroidalSlot(grid, x, y, Neighbours[k][1], Neighbours[k][2])]
       + AliveAmong(gen, grid, x, y, k + 1)

\* the toroidal alive-neighbour count of the cell in slot i
ToroidalCount(gen, i) == AliveAmong(gen, gridSize, i % gridSize.x, i \div gridSize.x, 1)

\* n = 3 alive, n = 2 as it is, any other n dead
LifeRule(n, s) == IF n = 3 THEN 1 ELSE IF n = 2 THEN s ELSE 0

\* the rule applied to all cells of gen at once
NextGeneration(gen) == [i \in Slots |-> LifeRule(ToroidalCount(gen, i), gen[i])]

\* the generation a dispatch reads and the one it writes, before and after
BoundGroup == bindGroups(variant, bound)

CurrentBefore ==
  IF variant = "script" THEN [i \in Slots |-> memBefore[0][i]]
  ELSE memBefore[BoundGroup.read]

NextBefore ==
  IF variant = "script" THEN [i \in Slots |-> memBefore[0][CellCount + i]]
  ELSE memBefore[BoundGroup.write]

CurrentNow ==
  IF variant = "script" THEN [i \in Slots |-> gridStateBuffers[0][i]]
  ELSE gridStateBuffers[BoundGroup.read]

NextNow ==
  IF variant = "script" THEN [i \in Slots |-> gridStateBuffers[0][CellCount + i]]
  ELSE gridStateBuffers[BoundGroup.write]

\* storage slots of the generation the dispatch reads, and of the one it writes
CurrentSlots ==
  IF variant = "script" THEN {<<0, i>> : i \in Slots}
  ELSE {<<BoundGroup.read, i>> : i \in Slots}

NextSlots ==
  IF variant = "script" THEN {<<0, CellCount + i>> : i \in Slots}
  ELSE {<<BoundGroup.write, i>> : i \in Slots}

\* the dispatch applies the rule: no paint override, and the kernel may write
RuleApplies ==
  /\ ~PaintActive(mouseData)
  /\ variant = "part_000" => (timeData % 500) <= 32
  /\ variant = "script" => renderInfoData.frame % STEP_RATE_script = 0

\* the slots of the cells whose invocations have run to their end
DoneSlots ==
  {cell_index(gridSize, c[1], c[2]) :
     c \in UNION {CellSet(w) : w \in {u \in Workgroups : pc[u] = "done"}}}

(* ------------------------------- C1 ----------------------------------- *)
\* C1: in the two-buffer programs, with no paint override and the kernel
\* allowed to write, a cell's invocation leaves in the cell's next-generation
\* slot the value the rule gives for the cell's current state and its toroidal
\* alive-neighbour count n: n = 2 the current state, n = 3 alive, else dead.
C1_RuleFromCountAndState ==
  (variant \in {"part_001", "part_000"} /\ RuleApplies) =>
    \A i \in DoneSlots : NextNow[i] = LifeRule(ToroidalCount(CurrentBefore, i), CurrentBefore[i])

\* C1 witness: a finished dispatch of part_000 in which a dead cell with three
\* alive neighbours was born, a cell with two kept its state and an alive cell
\* with four died
C1_Witness ==
  /\ variant = "part_000" /\ RuleApplies /\ DispatchDone
  /\ \E a, b, c \in Slots :
       /\ ToroidalCount(CurrentBefore, a) = 3 /\ CurrentBefore[a] = 0 /\ NextNow[a] = 1
       /\ ToroidalCount(CurrentBefore, b) = 2 /\ NextNow[b] = CurrentBefore[b]
       /\ ToroidalCount(CurrentBefore, c) = 4 /\ CurrentBefore[c] = 1 /\ NextNow[c] = 0

(* ------------------------------- C2 ----------------------------------- *)
\* C2: in every program, every slot a dispatch writes belongs to the next
\* generation, every slot it reads for a state or a neighbour count belongs to
\* the current generation, and no slot is both read and written.
C2_ReadsCurrentWritesNext ==
  /\ writes \subseteq NextSlots
  /\ reads \subseteq CurrentSlots
  /\ reads \cap writes = {}

(* ------------------------------- C3 ----------------------------------- *)
\* C3: whatever the order of the invocations of a dispatch, no neighbour read
\* finds a slot written earlier in the same dispatch, and when the rule was
\* applied the generation left is the rule applied to all cells of the
\* generation before the dispatch.
C3_OrderIndependent ==
  /\ dirty = {}
  /\ (DispatchDone /\ RuleApplies) =>
       /\ NextNow = NextGeneration(CurrentBefore)
       /\ variant = "script" => CurrentNow = NextGeneration(CurrentBefore)

(* ------------------------------- C5 ----------------------------------- *)
\* floor((pointer + 1) / 2 * size) for a pointer coordinate num / CanvasSize
\* of [-1, 1]
TargetCoordinate(num, size) == ((num + CanvasSize) * size) \div (2 * CanvasSize)

\* C5: with bit 0 of pressed set (pointer x, y in [-1, 1]), a finished
\* dispatch has written exactly one slot, the next-generation slot of the cell
\* target = floor((pointer + 1) / 2 * (width, height)), and set it alive; every
\* other slot of the next generation and every slot of the current generation
\* holds what it held before.
C5_PaintWritesTargetOnly ==
  (variant \in {"part_000", "script"} /\ PaintActive(mouseData) /\ DispatchDone) =>
    LET tx == TargetCoordinate(mouseData.x, gridSize.x)
        ty == TargetCoordinate(mouseData.y, gridSize.y)
        t == ty * gridSize.x + tx
    IN  /\ tx \in 0 .. gridSize.x - 1 /\ ty \in 0 .. gridSize.y - 1
        /\ writes = {s \in NextSlots : s[2] % CellCount = t}
        /\ NextNow[t] = 1
        /\ \A i \in Slots \ {t} : NextNow[i] = NextBefore[i]
        /\ CurrentNow = CurrentBefore

(* ------------------------------- C6 ----------------------------------- *)
\* C6: in the two-buffer programs, on a frame whose batch holds a compute
\* pass, the render pass of the batch is bound to read the buffer the compute
\* pass was bound to write, and draws the generation that buffer holds after
\* the step (not the generation the step read).
C6_RenderReadsWritten ==
  (variant \in {"part_001", "part_000"} /\ Len(batch) = 2) =>
    /\ bindGroups(variant, batch[2].group).read = bindGroups(variant, batch[1].group).write
    /\ rendered = gridStateBuffers[bindGroups(variant, batch[1].group).write]

(* ------------------------------- C7 ----------------------------------- *)
\* the time of the last executed step and the configured cadence of a program
LastStepTime == IF variant = "part_001" THEN lastUpdateTime ELSE lastSimulationTime

ConfiguredCadence == IF variant = "part_001" THEN STEP_RATE_001 ELSE STEP_RATE_000

\* C7: in the programs with the time-based policy, a frame puts a compute pass
\* in its batch if and only if its timestamp minus the time of the last
\* executed step is at least STEP_RATE; the time of the last executed step
\* becomes the frame's timestamp when it does and is left alone when it does not.
C7_TimeBasedCadence ==
  [][(variant \in {"part_001", "part_000"} /\ frame' = frame + 1) =>
       /\ (Len(batch') = 2) <=> (time' - LastStepTime >= ConfiguredCadence)
       /\ LastStepTime' = IF Len(batch') = 2 THEN time' ELSE LastStepTime]_vars

(* ------------------------------- C8 ----------------------------------- *)
\* C8: in script, when a batch whose dispatch ran with no paint active is
\* over, the current generation is the rule applied once to all cells of the
\* current generation before the batch if the frame count the dispatch saw is
\* a multiple of STEP_RATE, and otherwise both halves of the buffer hold what
\* they held before the batch.
C8_CountBasedCadence ==
  (variant = "script" /\ frame > 0 /\ BetweenBatches /\ ~PaintActive(mouseData)) =>
    IF renderInfoData.frame % STEP_RATE_script = 0
    THEN CurrentNow = NextGeneration(CurrentBefore)
    ELSE gridStateBuffers = memBefore

(* ------------------------------- C9 ----------------------------------- *)
\* the counter a program keeps of its steps: step, and in script (which has
\* no other) frame
StepCounter == IF variant = "script" THEN frame ELSE step

\* C9: a frame whose batch holds a dispatch in which the kernel applies the
\* rule (an executed step) adds exactly 1 to the step counter, and every other
\* frame leaves the counter as it is.
C9_StepCounterPerStep ==
  [][frame' = frame + 1 =>
       LET executes == Len(batch') = 2 /\ ~ReturnsEarly(variant, Uniforms')
       IN  StepCounter' = StepCounter + (IF executes THEN 1 ELSE 0)]_vars

(* ------------------------------- C10 ---------------------------------- *)
AllDead(gen) == \A i \in Slots : gen[i] = 0

\* the generation the next step reads
CurrentGeneration ==
  IF variant = "script" THEN [i \in Slots |-> gridStateBuffers[0][i]]
  ELSE gridStateBuffers[bindGroups(variant, step % 2).read]

\* C10: in part_001 and script, when the current generation had no alive cell
\* before the last dispatch and no paint was active in it, then once the batch
\* is over the generation the render pass drew and the generation the next
\* step reads have no alive cell (so, frame after frame, an all-dead grid
\* stays all-dead).
C10_AllDeadStays ==
  (/\ variant \in {"part_001", "script"}
   /\ frame > 0 /\ BetweenBatches
   /\ ~PaintActive(mouseData)
   /\ AllDead(CurrentBefore)) =>
    AllDead(rendered) /\ AllDead(CurrentGeneration)

(* ------------------------------- C4 ----------------------------------- *)
ProbeToroidal ==
  \A k \in 1 .. 8 :
    probe.slots[k] = ToroidalSlot(gridSize, probe.x, probe.y, Neighbours[k][1], Neighbours[k][2])

IsPowerOfTwo(n) == \E e \in 0 .. 30 : n = 2 ^ e

\* C4 (as stated): for every grid dimension that is a multiple of 8 and every
\* cell, each of the eight neighbour lookups resolves to the slot of
\* ((x+dx) mod width, (y+dy) mod height).
C4_AnyMultipleOfEight == probe # NoProbe => ProbeToroidal

\* C4 (amended): the same, for the grid dimensions that are powers of two
\* (8, 16, 32, 64, 128), the ones that divide 2^32.
C4_PowerOfTwoToroidal ==
  (probe # NoProbe /\ IsPowerOfTwo(gridSize.x) /\ IsPowerOfTwo(gridSize.y)) => ProbeToroidal

\* C4 witness: cell (0, 0) of the 128-wide grid looked up, its dx = dy = -1
\* neighbour being the last slot of the buffer
C4_Witness ==
  /\ probe # NoProbe
  /\ gridSize.x = 128
  /\ probe.x = 0 /\ probe.y = 0
  /\ probe.slots[5] = 128 * 128 - 1

(* ------------------------------- C11 ---------------------------------- *)
\* the generation whose alive cells are the cells (dx * k, dy * k) away from
\* cell (0, 0) for k = -1, 0, 1
LineThroughOrigin(dx, dy) ==
  [i \in Slots |->
     IF \E k \in -1 .. 1 : i = ToroidalSlot(gridSize, 0, 0, dx * k, dy * k) THEN 1 ELSE 0]

\* C11: part_001 seeded with three alive cells in a horizontal row on an
\* otherwise dead grid: after an odd number of executed steps the current
\* generation is exactly the vertical line of three through the same centre,
\* after an even number exactly the horizontal row again, and it is what the
\* render pass draws.
C11_BlinkerPeriodTwo ==
  /\ CurrentGeneration =
       IF step % 2 = 0 THEN LineThroughOrigin(1, 0) ELSE LineThroughOrigin(0, 1)
  /\ frame > 0 => rendered = CurrentGeneration

\* C11 witness: the second executed step has read the vertical line and left
\* the horizontal row
C11_Witness ==
  /\ step = 2
  /\ CurrentBefore = LineThroughOrigin(0, 1)
  /\ CurrentGeneration = LineThroughOrigin(1, 0)
  /\ rendered = LineThroughOrigin(1, 0)

(* ------------------------------- C12 ---------------------------------- *)
\* whether a step is due on the frame being run: the test of part_001 on the
\* frame's timestamp, and in script the frame count being a multiple of
\* STEP_RATE
StepDue ==
  IF variant = "script" THEN frame % STEP_RATE_script = 0
  ELSE time' - lastUpdateTime >= STEP_RATE_001

\* a batch of one render pass, with one compute pass over the whole grid
\* before it if and only if dispatched
BatchShape(b, dispatched) ==
  /\ Len(b) = (IF dispatched THEN 2 ELSE 1)
  /\ b[Len(b)].pass = "render"
  /\ dispatched =>
       /\ b[1].pass = "compute"
       /\ b[1].workgroups * WORKGROUP_SIZE >= GRID_SIZE

\* C12: in part_001 and script, the batch a frame submits holds exactly one
\* render pass, preceded by one compute pass whose workgroups cover the grid
\* when a step is due on the frame, and by no compute pass when none is due.
C12_BatchPerFrame ==
  [][(variant \in {"part_001", "script"} /\ frame' = frame + 1) =>
       BatchShape(batch', StepDue)]_vars

(* ------------------------------- C13 ---------------------------------- *)
\* C13: in part_001, once a frame has run, the render pass is bound to the
\* bind group of index step mod 2 and draws the buffer that group reads: the
\* seeded buffer 0 while no step has been executed, and from then on the
\* buffer the latest step wrote; the next step is bound to write the other
\* buffer.
C13_RenderByStepParity ==
  (variant = "part_001" /\ frame > 0) =>
    LET now == bindGroups(variant, step % 2)
    IN  /\ batch[Len(batch)].group = step % 2
        /\ rendered = gridStateBuffers[now.read]
        /\ now.read = (IF step = 0 THEN 0 ELSE bindGroups(variant, bound).write)
        /\ now.write # now.read

\* C13 witness: three steps executed, the third having written buffer 1,
\* which the render pass drew
C13_Witness ==
  /\ variant = "part_001" /\ step = 3
  /\ bindGroups(variant, bound).write = 1
  /\ rendered = gridStateBuffers[1]
  /\ gridStateBuffers[1] # gridStateBuffers[0]

(* ------------------------------- C14 ---------------------------------- *)
\* the two generations of the storage: the two buffers, or the two halves of
\* the packed buffer
Generations ==
  IF variant = "script"
  THEN << [i \in Slots |-> gridStateBuffers[0][i]],
          [i \in Slots |-> gridStateBuffers[0][CellCount + i]] >>
  ELSE << gridStateBuffers[0], gridStateBuffers[1] >>

\* C14: when main has registered the first frame callback and no frame has
\* run, the two generations hold the same population (the seed), and a first
\* frame that executes no step draws that population.
C14_BothGenerationsSeeded ==
  /\ (frame = 0 /\ scheduled = 1) => Generations[1] = Generations[2]
  /\ (frame = 1 /\ Len(batch) = 1) =>
       rendered = Generations[1] /\ rendered = Generations[2]

(* ------------------------------- C15 ---------------------------------- *)
\* the message of the first capability the host does not give, "" if it
\* gives all three
CauseOf(env) ==
  IF ~env.gpu THEN "WebGPU not supported."
  ELSE IF ~env.adapter THEN "No GPUAdapter found."
  ELSE IF ~env.context THEN "WebGPU context failed."
  ELSE ""

\* C15: on a host without GPU capability, adapter or context, startup never
\* gets to its setup; once main has failed, the failure carries the message
\* of the cause, it is reported to the user (a failure not yet reported has
\* its handler pending, a handled one has shown the message), no frame
\* callback is registered and no frame has run.
C15_StartupFailure ==
  /\ CauseOf(boot.env) # "" => boot.phase \notin {"setup", "running"}
  /\ boot.phase \in {"rejected", "handled"} =>
       /\ boot.message = CauseOf(boot.env) /\ boot.message # ""
       /\ scheduled = 0 /\ frame = 0
  /\ boot.phase = "rejected" => ENABLED main_catch
  /\ boot.phase = "handled" => boot.alerted = boot.message

(* ------------------------------- C16 ---------------------------------- *)
\* C16: in part_000 with no paint active, the invocations of a dispatch write
\* the next-generation slots of their cells when the time uniform modulo 500
\* lies in [0, 32), and write no slot for any other value of it.
C16_BurstWindow ==
  (variant = "part_000" /\ ~PaintActive(mouseData)) =>
    IF timeData % 500 < 32
    THEN writes = {<<BoundGroup.write, i>> : i \in DoneSlots}
    ELSE writes = {}

(* ------------------------------- C17 ---------------------------------- *)
\* the vertices an instance was given, as a set of points
QuadPoints == {probe.out[k].position : k \in 1 .. 6}

\* a quad of four corners spanning a positive width and height
NonDegenerate(pts) ==
  /\ Cardinality(pts) = 4
  /\ \E a \in pts, b \in pts : a[1] < b[1] /\ a[2] < b[2]

\* C17: for every buffer drawn and every instance i, the six vertices of the
\* instance form a non-degenerate quad if and only if slot i of the generation
\* drawn is alive, they all fall on one point when it is dead, the instance is
\* given the cell (i mod width, i div width), and its vertices lie inside the
\* tile of that cell, [-1 + 2c/size, -1 + 2(c + 1)/size] on each axis.
C17_QuadIffAlive ==
  (probe # NoProbe) =>
    LET i == probe.instance
        alive == Drawn(variant, bound, gridStateBuffers)[i] = 1
        col == i % gridSize.x
        row == i \div gridSize.x
    IN  /\ NonDegenerate(QuadPoints) <=> alive
        /\ ~alive => Cardinality(QuadPoints) = 1
        /\ \A k \in 1 .. 6 : probe.out[k].cell = <<col, row>>
        /\ \A p \in QuadPoints :
             /\ 8 * col - 4 * gridSize.x <= p[1] /\ p[1] <= 8 * col - 4 * gridSize.x + 8
             /\ 8 * row - 4 * gridSize.y <= p[2] /\ p[2] <= 8 * row - 4 * gridSize.y + 8

\* C17 witness: a buffer whose only alive cell is (1, 0) is drawn by script,
\* the instance of that cell is a quad inside the cell's tile
C17_Witness ==
  /\ probe # NoProbe /\ variant = "script"
  /\ Drawn(variant, bound, gridStateBuffers) = PatternOf({2})
  /\ probe.instance = 1
  /\ NonDegenerate(QuadPoints)

(* ------------------------------- C18 ---------------------------------- *)
\* C18: for every time t >= 0 a fragment is shaded at, the two palette entries
\* mixed are entry k = floor(t / keyframeLength) mod 9 and entry (k + 1) mod 9,
\* and the two indices the shader uses lie in 0 .. 8.
C18_KeyframePair ==
  (probe # NoProbe) =>
    LET k == (probe.time \div keyframeLength) % 9
    IN  /\ probe.index.from = k /\ probe.index.to \in 0 .. 8
        /\ probe.mixed = <<k, (k + 1) % 9>>

(* ------------------------------- C19 ---------------------------------- *)
\* the frames the loop of the program is followed for
LoopBound == IF variant = "part_000" THEN MaxFrames_000 ELSE MaxFrames_script

\* C19: in part_000 and script, exactly one frame callback is pending at any
\* time between two frames (never none, never two), every frame leaves
\* exactly one pending, and with the host issuing the callbacks frame follows
\* frame: the loop gets to every frame it is followed for.
C19_LoopNeverStops ==
  /\ [](scheduled = 1)
  /\ [][frame' = frame + 1 => scheduled' = 1]_vars
  /\ <>(frame = LoopBound)

\* C19 witness: script has run to its last frame followed, the batch of the
\* frame is in flight and the next callback is pending
C19_Witness ==
  /\ variant = "script" /\ frame = MaxFrames_script
  /\ renderPending /\ scheduled = 1

(* C20: the pointer state is copied once per frame, by the frame callback and
   before its kernel runs: the triple in the uniform is the (x, y, pressed)
   the pointer state held when the callback ran, and it stays that triple for
   every cell of the batch, whatever press, release and move events arrive
   before, during or after the batch. *)
C20_PointerSnapshot ==
  [][IF frame' = frame + 1
     THEN /\ mouseData'.x = mouse.x
          /\ mouseData'.y = mouse.y
          /\ mouseData'.z = mouse.pressed
     ELSE mouseData' = mouseData]_vars

\* script.ts in the middle of a batch: the primary button was pressed before
\* the frame and released after the callback, and the batch still has the
\* pressed button in its uniform
C20_Witness ==
  /\ variant = "script"
  /\ \E w \in Workgroups : pc[w] = "done"
  /\ \E w \in Workgroups : pc[w] # "done"
  /\ events = MaxPointerEvents
  /\ mouseData.z = 1 /\ mouse.pressed = 0

(* ------------------------------- C21 ---------------------------------- *)
(* C21: in a paint step, wherever the pointer is (also where its target cell
   is outside the grid, as with y = +1 and row = height), every slot written
   is a slot 0 .. width*height - 1 of a generation buffer, at most one slot is
   written, and the buffers keep their shape: nothing fails. *)
C21_PaintInsideBuffer ==
  (variant \in {"part_000", "script"} /\ PaintActive(mouseData)) =>
    /\ \A s \in writes : s[1] \in DOMAIN gridStateBuffers /\ s[2] \in Slots
    /\ Cardinality(writes) <= 1
    /\ \A b \in DOMAIN gridStateBuffers :
         /\ DOMAIN gridStateBuffers[b] = DOMAIN memBefore[b]
         /\ \A i \in DOMAIN gridStateBuffers[b] : gridStateBuffers[b][i] \in Bit

\* part_000, a finished paint step with the pointer on the top pixel row
\* (y = +1, target row = height): no invocation has written
C21_Witness ==
  /\ variant = "part_000" /\ PaintActive(mouseData)
  /\ mouseData.y = CanvasSize
  /\ TargetCoordinate(mouseData.y, gridSize.y) = gridSize.y
  /\ DispatchDone
  /\ writes = {}
  /\ gridStateBuffers = memBefore

(* ------------------------------- C22 ---------------------------------- *)
\* the uniforms of the dispatch in flight with no button held
NoButtonHeld == [Uniforms EXCEPT !.mouse = [@ EXCEPT !.z = 0]]

\* the slot of the pointer's target cell, where the target is a cell
PaintedSlots ==
  LET tx == TargetCoordinate(mouseData.x, gridSize.x)
      ty == TargetCoordinate(mouseData.y, gridSize.y)
  IN  IF tx \in 0 .. gridSize.x - 1 /\ ty \in 0 .. gridSize.y - 1
      THEN {ty * gridSize.x + tx} ELSE {}

(* C22: in part_000 and script, paint mode goes with bit 0 of pressed. With
   bit 0 set no invocation applies the rule: no neighbour is read, and the only
   slot that can change is the slot of the pointer's target cell, set alive.
   With bit 0 clear (pressed = 0 or pressed = 2) every workgroup leaves the
   buffers exactly as it leaves them with no button held, and part_000 ends
   the dispatch with the rule's generation (or with nothing written, outside
   the burst window). *)
C22_PaintIffBitZero ==
  /\ []((variant \in {"part_000", "script"} /\ mouseData.z % 2 = 1) =>
          /\ reads = {}
          /\ \A b \in DOMAIN gridStateBuffers : \A i \in DOMAIN gridStateBuffers[b] :
               gridStateBuffers[b][i] # memBefore[b][i] =>
                 (gridStateBuffers[b][i] = 1 /\ i \in PaintedSlots))
  /\ []((variant = "part_000" /\ mouseData.z % 2 = 0 /\ DispatchDone) =>
          /\ CurrentNow = CurrentBefore
          /\ NextNow = IF (timeData % 500) > 32 THEN NextBefore
                       ELSE NextGeneration(CurrentBefore))
  /\ [][\A w \in Workgroups :
          (variant \in {"part_000", "script"} /\ mouseData.z % 2 = 0
             /\ pc[w] = "rule" /\ pc'[w] # "rule") =>
            gridStateBuffers' =
              RunCells(variant, NoButtonHeld, BoundGroup, gridStateBuffers,
                       WorkgroupCells(w), 1)]_vars

\* part_000 with the secondary button alone, inside the burst window: the
\* finished dispatch has written the rule's generation, which differs from
\* what the written buffer held
C22_Witness ==
  /\ variant = "part_000" /\ mouseData.z = 2
  /\ timeData = 0 /\ DispatchDone
  /\ NextNow = NextGeneration(CurrentBefore)
  /\ NextNow # NextBefore

(* ------------------------------- C23 ---------------------------------- *)
(* C23: in part_001, a frame whose timestamp is less than STEP_RATE after the
   last executed step changes nothing in the simulation: both buffers, the step
   counter and the time of the last executed step are what they were, the batch
   is the render pass alone, and (from the second frame on) the render pass
   is bound to the group of the previous frame's and draws the same cells. *)
C23_IdleFrameChangesNothing ==
  [][(variant = "part_001" /\ frame' = frame + 1
        /\ time' - lastUpdateTime < STEP_RATE_001) =>
       /\ gridStateBuffers' = gridStateBuffers
       /\ step' = step
       /\ lastUpdateTime' = lastUpdateTime
       /\ Len(batch') = 1 /\ batch'[1].pass = "render"
       /\ frame > 0 =>
            /\ batch'[1].group = batch[Len(batch)].group
            /\ rendered' = rendered]_vars

\* part_001 after a frame with no step due that came after two executed
\* steps: the cells drawn are the ones the second step wrote
C23_Witness ==
  /\ variant = "part_001" /\ step = 2
  /\ Len(batch) = 1
  /\ time > lastUpdateTime /\ time - lastUpdateTime < STEP_RATE_001
  /\ rendered = gridStateBuffers[1 - bound]
  /\ gridStateBuffers[0] # gridStateBuffers[1]

(* ------------------------------- C24 ---------------------------------- *)
\* the compute passes of a batch
ComputePasses(b) == {k \in DOMAIN b : b[k].pass = "compute"}

(* C24: in part_001 a frame executes at most one step, also when two cadences
   or more have passed since the last executed step: the step counter grows by
   at most 1 and the batch holds at most one compute pass. The time of the
   last executed step moves to the frame's timestamp exactly on the frames
   that execute a step, and an executed step that is not the first comes at
   least STEP_RATE after the executed step before it. *)
C24_OneStepPerFrame ==
  [][(variant = "part_001" /\ frame' = frame + 1) =>
       /\ step' \in {step, step + 1}
       /\ Cardinality(ComputePasses(batch')) = step' - step
       /\ lastUpdateTime' = IF step' = step + 1 THEN time' ELSE lastUpdateTime
       /\ (step' = step + 1 /\ step > 0) => time' - lastUpdateTime >= STEP_RATE_001
       /\ time' - lastUpdateTime >= 2 * STEP_RATE_001 => step' = step + 1]_vars

\* part_001 after two frames that each came more than two cadences after the
\* step before: two steps executed, one a frame
C24_Witness ==
  /\ variant = "part_001" /\ frame = 2 /\ step = 2
  /\ time = lastUpdateTime /\ time >= 4 * STEP_RATE_001
  /\ Cardinality(ComputePasses(batch)) = 1

(* ------------------------------- C25 ---------------------------------- *)
(* C25: in part_000, on a frame after the first whose kernel writes no cell
   (the frame's time is outside the burst window and bit 0 of pressed is
   clear in the frame's snapshot), the render pass draws cell for cell what
   the render pass of the previous frame drew. *)
C25_DisplayKeptWhenNothingWritten ==
  [][(variant = "part_000" /\ frame > 0 /\ frame' = frame + 1
        /\ (time' % 500) > 32 /\ mouse.pressed % 2 = 0) =>
       rendered' = rendered]_vars

(* ------------------------------- C26 ---------------------------------- *)
\* part_000: the generation the next dispatch will read, as the buffers stand
\* after a frame (step grows by 1 before the next dispatch is bound)
NextRead == gridStateBuffers[bindGroups(variant, (step + 1) % 2).read]

\* part_000: a frame interval after which the kernel applies the rule, with
\* no paint in between
RuleFrameCanFollow ==
  \E d \in Deltas_000 : d >= 1 /\ ((time + d) % 500) <= 32

(* C26: in part_000, a cell that a paint step forced alive is alive in the
   generation the next rule-applying dispatch reads: right after the paint
   frame, and again after a frame that came next and wrote nothing (burst
   window closed, bit 0 of pressed clear), when a rule-applying frame can
   follow. *)
C26_PaintedCellKept ==
  [][(variant = "part_000" /\ frame' = frame + 1 /\ Len(batch') = 2) =>
       /\ mouseData'.z % 2 = 1 =>
            \A s \in writes' : NextRead'[s[2]] = 1
       /\ (Len(batch) = 2 /\ mouseData.z % 2 = 1 /\ mouseData'.z % 2 = 0
             /\ (time' % 500) > 32 /\ RuleFrameCanFollow') =>
            \A s \in writes : NextRead'[s[2]] = 1]_vars
====
